---- MODULE Spec2Model ----
(***************************************************************************)
(* Magic File Transfer: the server-side upload coordinator.                *)
(*   DataStore     (datastore.js)      the serialized JSON state document  *)
(*   UploadManager (src/uploadManager.js) the upload lifecycle             *)
(*   HTTP handlers (server.js)         chunk / create / state requests     *)
(* Every request handler is modelled as a process that advances from one   *)
(* await to the next; the steps of different requests interleave freely.   *)
(***************************************************************************)
EXTENDS Integers, Sequences, FiniteSets, TLC

(* ------------------------------ bounds -------------------------------- *)
\* number of HTTP requests that arrive in one run
MaxReq == 3
\* number of uploads the sequential client of SpecHistory creates and ends
MaxCompletions == 203
\* number of uploads that createUpload allocates an id for
MaxUploads == 1
\* the file size of every created upload; chunk sizes range over 1..MaxFileSize
MaxFileSize == 2
\* number of stops and restarts of the process in one run
MaxRestarts == 1

(* ------------------------- program constants -------------------------- *)
HistoryCap == 200

UserKeys == {"k1"}
IdNames == <<"u1", "u2", "u3", "u4">>
UploadIds == {IdNames[n] : n \in 1..MaxUploads}
FileSizes == {MaxFileSize}
ChunkSizes == 1..MaxFileSize
ChunkIndexes == 0..(MaxFileSize - 1)
Reqs == 1..MaxReq
Actions == {"pause", "resume", "cancel", "forget"}
RawMutators == {"touch", "touchThrow", "select"}
\* what an identify request sends as userKey: nothing, or a key
RequestedKeys == {"none"} \cup UserKeys
\* the user ids the Id Factory hands out, one per call
GenNames == <<"g1", "g2", "g3", "g4", "g5">>
FileNames == {"a.bin"}

VARIABLES
  file,       \* the state document on disk: [users |-> map userKey -> record]
  ephemeral,  \* UploadManager.ephemeral: map userKey -> map uploadId -> metadata
  disk,       \* scratch storage: uploadId -> [dir, part: index -> part state]
  finalFile,  \* uploadId -> state of the assembled output file
  storeQ,     \* DataStore._lock: the requests chained on it, oldest first
  lockErr,    \* "none", or the error the tail of the settled chain rejected with
  txn,        \* the state object held by each executing store body
  req,        \* the HTTP requests: position and locals of each handler
  finalBytes, \* uploadId -> what the output file holds at the place of each part
  firstWrite, \* uploadId -> index -> the request whose fs.writeFile resolved first
  restarts    \* how often the process has been stopped and started again

vars == <<file, ephemeral, disk, finalFile, storeQ, lockErr, txn, req,
          finalBytes, firstWrite, restarts>>

(* ------------------------------ maps ---------------------------------- *)
EmptyMap == [x \in {} |-> 0]
Put(f, k, v) == [x \in (DOMAIN f) \cup {k} |-> IF x = k THEN v ELSE f[x]]
Del(f, k) == [x \in (DOMAIN f) \ {k} |-> f[x]]

EmptyState == [users |-> EmptyMap]

\* the record of a new user; createdAt is this._now() of the calling request
NewUserRecord(userKey, now) ==
  [key |-> userKey, createdAt |-> now, uploads |-> EmptyMap, history |-> <<>>]

\* _ensureUserRecord: the state with a record for userKey
_ensureUserRecord(state, userKey, now) ==
  IF userKey \in DOMAIN state.users
  THEN state
  ELSE [state EXCEPT !.users = Put(state.users, userKey, NewUserRecord(userKey, now))]

\* _ensureEphemeralUser: the registry with a bucket for userKey
_ensureEphemeralUser(eph, userKey) ==
  IF userKey \in DOMAIN eph THEN eph ELSE Put(eph, userKey, EmptyMap)

CeilDiv(a, b) == (a + b - 1) \div b

\* createUpload's baseMetadata
baseMetadata(uploadId, userKey, fileName, fileSize, chunkSize, persist) ==
  [id |-> uploadId, userKey |-> userKey, fileName |-> fileName, fileSize |-> fileSize,
   chunkSize |-> chunkSize, totalChunks |-> CeilDiv(fileSize, chunkSize),
   persist |-> persist, status |-> "active", receivedChunks |-> {},
   receivedCount |-> 0]

RECURSIVE MissingFrom(_, _)
MissingFrom(upload, i) ==
  IF i >= upload.totalChunks THEN <<>>
  ELSE (IF i \in upload.receivedChunks THEN <<>> ELSE <<i>>)
       \o MissingFrom(upload, i + 1)

\* _missingChunks with its loop started at index 1
MissingChunksFromOne(upload) == MissingFrom(upload, 1)

\* _missingChunks: the loop i = 0 .. totalChunks-1 pushing the unmarked indices
_missingChunks(upload) == MissingFrom(upload, 0)

\* _decorateUpload: the clone with missingChunks and receivedCount
_decorateUpload(upload) ==
  [id |-> upload.id, userKey |-> upload.userKey, fileName |-> upload.fileName,
   fileSize |-> upload.fileSize,
   chunkSize |-> upload.chunkSize, totalChunks |-> upload.totalChunks,
   persist |-> upload.persist, status |-> upload.status,
   receivedChunks |-> upload.receivedChunks,
   missingChunks |-> _missingChunks(upload),
   receivedCount |-> upload.totalChunks - Len(_missingChunks(upload))]

\* _markChunk without the upper range check
MarkChunkNoUpperCheck(upload, chunkIndex) ==
  IF chunkIndex < 0
  THEN [err |-> "chunk_out_of_range", upload |-> upload]
  ELSE [err |-> "none",
        upload |-> [upload EXCEPT
          !.receivedChunks = @ \cup {chunkIndex},
          !.receivedCount = Cardinality(upload.receivedChunks \cup {chunkIndex}),
          !.status = "active"]]

\* _markChunk that replaces the marks by the new index
MarkChunkOverwrite(upload, chunkIndex) ==
  IF chunkIndex < 0 \/ chunkIndex >= upload.totalChunks
  THEN [err |-> "chunk_out_of_range", upload |-> upload]
  ELSE [err |-> "none",
        upload |-> [upload EXCEPT
          !.receivedChunks = {chunkIndex},
          !.receivedCount = 1,
          !.status = "active"]]

\* _markChunk: range check, then mark, recount, status active
\* _markChunk that leaves the status as it is
MarkChunkKeepStatus(upload, chunkIndex) ==
  IF chunkIndex < 0 \/ chunkIndex >= upload.totalChunks
  THEN [err |-> "chunk_out_of_range", upload |-> upload]
  ELSE [err |-> "none",
        upload |-> [upload EXCEPT
          !.receivedChunks = @ \cup {chunkIndex},
          !.receivedCount = Cardinality(upload.receivedChunks \cup {chunkIndex})]]

_markChunk(upload, chunkIndex) ==
  IF chunkIndex < 0 \/ chunkIndex >= upload.totalChunks
  THEN [err |-> "chunk_out_of_range", upload |-> upload]
  ELSE [err |-> "none",
        upload |-> [upload EXCEPT
          !.receivedChunks = @ \cup {chunkIndex},
          !.receivedCount = Cardinality(upload.receivedChunks \cup {chunkIndex}),
          !.status = "active"]]

\* _toHistoryEntry
_toHistoryEntry(upload) ==
  [id |-> upload.id, fileName |-> upload.fileName, fileSize |-> upload.fileSize,
   chunkSize |-> upload.chunkSize, totalChunks |-> upload.totalChunks,
   persist |-> upload.persist]

\* history.unshift(entry) without the slice
PushHistoryNoCap(history, entry) == <<entry>> \o history

\* history.unshift(entry), then slice(0, 200) when longer
PushHistory(history, entry) ==
  IF Len(<<entry>> \o history) > HistoryCap
  THEN SubSeq(<<entry>> \o history, 1, HistoryCap)
  ELSE <<entry>> \o history

\* user.history of userKey in a state document
HistoryOf(state, userKey) ==
  IF userKey \in DOMAIN state.users THEN state.users[userKey].history ELSE <<>>

\* the guard !user || !user.uploads || !user.uploads[uploadId], negated
HasUpload(state, userKey, uploadId) ==
  /\ userKey \in DOMAIN state.users
  /\ uploadId \in DOMAIN state.users[userKey].uploads

\* memoryUser && memoryUser.uploads.has(uploadId)
InMemory(eph, userKey, uploadId) ==
  /\ userKey \in DOMAIN eph
  /\ uploadId \in DOMAIN eph[userKey]

(* ---------------------------- the snapshot ----------------------------- *)
\* Object.values(uploads) / uploads.values(): the records in insertion order,
\* which is the order in which createUpload handed out the ids
RECURSIVE ValuesFrom(_, _)
ValuesFrom(uploads, n) ==
  IF n > Len(IdNames) THEN <<>>
  ELSE (IF IdNames[n] \in DOMAIN uploads THEN <<uploads[IdNames[n]]>> ELSE <<>>)
       \o ValuesFrom(uploads, n + 1)

\* every decorated upload is pushed to the active list
SnapshotListAllActive(status) == "active"

\* getUserSnapshot: the list a decorated upload is pushed to
SnapshotList(status) == IF status = "paused" THEN "paused" ELSE "active"

RECURSIVE DecorateAll(_)
DecorateAll(uploads) ==
  IF uploads = <<>> THEN <<>>
  ELSE <<_decorateUpload(Head(uploads))>> \o DecorateAll(Tail(uploads))

\* getUserSnapshot on the document its readState call read and the registry
\* as it is when that call has returned; found = FALSE is the null result
\* getUserSnapshot that answers null for a user without a persistent record
getUserSnapshotPersistentOnly(state, eph, userKey) ==
  LET persistent == IF userKey \in DOMAIN state.users
                    THEN DecorateAll(ValuesFrom(state.users[userKey].uploads, 1))
                    ELSE <<>>
  IN IF userKey \notin DOMAIN state.users
     THEN [found |-> FALSE, active |-> <<>>, paused |-> <<>>, history |-> <<>>]
     ELSE [found |-> TRUE,
           active |-> SelectSeq(persistent, LAMBDA d : SnapshotList(d.status) = "active"),
           paused |-> SelectSeq(persistent, LAMBDA d : SnapshotList(d.status) = "paused"),
           history |-> state.users[userKey].history]

getUserSnapshot(state, eph, userKey) ==
  LET persistent == IF userKey \in DOMAIN state.users
                    THEN DecorateAll(ValuesFrom(state.users[userKey].uploads, 1))
                    ELSE <<>>
      memory == IF userKey \in DOMAIN eph
                THEN DecorateAll(ValuesFrom(eph[userKey], 1))
                ELSE <<>>
      all == persistent \o memory
  IN IF userKey \notin DOMAIN state.users /\ userKey \notin DOMAIN eph
     THEN [found |-> FALSE, active |-> <<>>, paused |-> <<>>, history |-> <<>>]
     ELSE [found |-> TRUE,
           active |-> SelectSeq(all, LAMBDA d : SnapshotList(d.status) = "active"),
           paused |-> SelectSeq(all, LAMBDA d : SnapshotList(d.status) = "paused"),
           history |-> IF userKey \in DOMAIN state.users
                       THEN state.users[userKey].history ELSE <<>>]

(* --------------------------- the mutators ------------------------------ *)
\* what a mutator or selector run on `state` leaves: the error it threw or
\* "none", the state object as it left it, and the value it returned
Thrown(state, err) ==
  [err |-> err, state |-> state, completed |-> FALSE, total |-> 0, key |-> "none"]
Returned(state, completed, total) ==
  [err |-> "none", state |-> state, completed |-> completed, total |-> total,
   key |-> "none"]
\* the return value { userKey: key, created: true }
ReturnedKey(state, key) ==
  [err |-> "none", state |-> state, completed |-> TRUE, total |-> 0, key |-> key]

\* the selector that finds no key
ExistsNever(state, rq) == Returned(state, FALSE, 0)

\* identifyUser: the readState selector state.users[requestedKey] ? true : false
ExistsSelector(state, rq) == Returned(state, rq.user \in DOMAIN state.users, 0)

\* this._createUserId(): 16 random characters; the call of request rq
CreateUserId(rq) == GenNames[rq.now]

\* the mutator that writes a new record under the requested key, whatever
\* the document holds
IdentifyMutatorOverwrite(state, rq) ==
  LET candidate == IF rq.user = "none" THEN CreateUserId(rq) ELSE rq.user
  IN ReturnedKey([state EXCEPT !.users =
                    Put(state.users, candidate, NewUserRecord(candidate, rq.now))],
                 candidate)

\* identifyUser: the withState mutator; rq.user is requestedKey
IdentifyMutator(state, rq) ==
  LET candidate == IF rq.user = "none" \/ rq.user \in DOMAIN state.users
                   THEN CreateUserId(rq)
                   ELSE rq.user
  IN ReturnedKey(IF candidate \notin DOMAIN state.users
                 THEN [state EXCEPT !.users =
                         Put(state.users, candidate, NewUserRecord(candidate, rq.now))]
                 ELSE state,
                 candidate)

\* clearHistory: the withState mutator
\* clearHistory that also drops the user's live uploads
ClearMutatorAll(state, rq) ==
  IF rq.user \notin DOMAIN state.users
  THEN Thrown(state, "user_not_found")
  ELSE Returned([state EXCEPT !.users[rq.user].history = <<>>,
                              !.users[rq.user].uploads = EmptyMap], FALSE, 0)

ClearMutator(state, rq) ==
  IF rq.user \notin DOMAIN state.users
  THEN Thrown(state, "user_not_found")
  ELSE Returned([state EXCEPT !.users[rq.user].history = <<>>], FALSE, 0)

\* createUpload: the withState mutator of the persistent branch
CreateMutator(state, rq) ==
  Returned([_ensureUserRecord(state, rq.user, rq.now) EXCEPT
              !.users[rq.user].uploads =
                 Put(@, rq.u, baseMetadata(rq.u, rq.user, rq.fileName, rq.fileSize,
                                           rq.chunkSize, rq.persist))],
           FALSE, 0)

\* recordChunk: the withState mutator of the persistent branch
\* recordChunk that looks the upload up in every user's record
RecordMutatorAnyUser(state, rq) ==
  LET owners == {k \in DOMAIN state.users : rq.u \in DOMAIN state.users[k].uploads}
      k == CHOOSE x \in owners : TRUE
      m == _markChunk(state.users[k].uploads[rq.u], rq.idx)
  IN IF owners = {}
     THEN Thrown(state, "upload_not_found")
     ELSE IF m.err # "none"
          THEN Thrown(state, m.err)
          ELSE Returned([state EXCEPT !.users[k].uploads[rq.u] = m.upload],
                        Len(_decorateUpload(m.upload).missingChunks) = 0,
                        _decorateUpload(m.upload).totalChunks)

RecordMutator(state, rq) ==
  IF ~HasUpload(state, rq.user, rq.u)
  THEN Thrown(state, "upload_not_found")
  ELSE LET m == _markChunk(state.users[rq.user].uploads[rq.u], rq.idx)
       IN IF m.err # "none"
          THEN Thrown(state, m.err)
          ELSE Returned([state EXCEPT !.users[rq.user].uploads[rq.u] = m.upload],
                        Len(_decorateUpload(m.upload).missingChunks) = 0,
                        _decorateUpload(m.upload).totalChunks)

StatusOf(action) == IF action = "pause" THEN "paused" ELSE "active"

\* updateStatus: the withState mutator of the persistent branch
\* updateStatus that rejects a request for the status the upload already has
StatusMutatorStrict(state, rq) ==
  IF ~HasUpload(state, rq.user, rq.u)
  THEN Thrown(state, "upload_not_found")
  ELSE IF state.users[rq.user].uploads[rq.u].status = StatusOf(rq.action)
  THEN Thrown(state, "invalid_action")
  ELSE Returned([state EXCEPT !.users[rq.user].uploads[rq.u].status =
                                 StatusOf(rq.action)],
                FALSE, 0)

StatusMutator(state, rq) ==
  IF ~HasUpload(state, rq.user, rq.u)
  THEN Thrown(state, "upload_not_found")
  ELSE Returned([state EXCEPT !.users[rq.user].uploads[rq.u].status =
                                 StatusOf(rq.action)],
                FALSE, 0)

\* finalizeUpload that writes the history entry and keeps the live record
FinalizeMutatorKeep(state, rq) ==
  IF ~HasUpload(state, rq.user, rq.u)
  THEN Thrown(state, "upload_not_found")
  ELSE LET upload == [state.users[rq.user].uploads[rq.u] EXCEPT !.status = "completed"]
       IN Returned([state EXCEPT
                      !.users[rq.user].history = PushHistory(@, _toHistoryEntry(upload))],
                   FALSE, 0)

\* finalizeUpload: the withState mutator of the persistent branch
\* finalizeUpload that returns without effect when the upload is not there
FinalizeMutatorLenient(state, rq) ==
  IF ~HasUpload(state, rq.user, rq.u)
  THEN Returned(state, FALSE, 0)
  ELSE LET upload == [state.users[rq.user].uploads[rq.u] EXCEPT !.status = "completed"]
       IN Returned([state EXCEPT
                      !.users[rq.user].history = PushHistory(@, _toHistoryEntry(upload)),
                      !.users[rq.user].uploads = Del(@, rq.u)],
                   FALSE, 0)

FinalizeMutator(state, rq) ==
  IF ~HasUpload(state, rq.user, rq.u)
  THEN Thrown(state, "upload_not_found")
  ELSE LET upload == [state.users[rq.user].uploads[rq.u] EXCEPT !.status = "completed"]
       IN Returned([state EXCEPT
                      !.users[rq.user].history = PushHistory(@, _toHistoryEntry(upload)),
                      !.users[rq.user].uploads = Del(@, rq.u)],
                   FALSE, 0)

\* removeUpload that writes no history entry, whatever forget is
RemoveMutatorNoHistory(state, rq) ==
  IF ~HasUpload(state, rq.user, rq.u)
  THEN Thrown(state, "upload_not_found")
  ELSE Returned([state EXCEPT !.users[rq.user].uploads = Del(@, rq.u)], FALSE, 0)

\* removeUpload: the withState mutator of the persistent branch
RemoveMutator(state, rq) ==
  IF ~HasUpload(state, rq.user, rq.u)
  THEN Thrown(state, "upload_not_found")
  ELSE LET upload == state.users[rq.user].uploads[rq.u]
       IN Returned([state EXCEPT
                      !.users[rq.user].history =
                         IF rq.action = "forget" THEN @
                         ELSE PushHistory(@, _toHistoryEntry(upload)),
                      !.users[rq.user].uploads = Del(@, rq.u)],
                   FALSE, 0)

\* finalizeUpload / removeUpload, ephemeral branch: the mutator that writes
\* the history entry of the upload the caller took out of the bucket
HistoryMutator(state, rq) ==
  Returned([_ensureUserRecord(state, rq.user, rq.now) EXCEPT
              !.users[rq.user].history = PushHistory(@, _toHistoryEntry(rq.held[1]))],
           FALSE, 0)

\* the key a handler calls getUserSnapshot with: result.userKey in the
\* identify handler, the userKey of the request in the others
SnapshotKey(rq) == IF rq.kind = "identify" THEN rq.key ELSE rq.user

\* getUserSnapshot: the readState selector
SnapshotSelector(state, rq) == Returned(state, FALSE, 0)

\* a mutator handed to withState by a direct client of the DataStore:
\* "touch" creates the user's record and returns, "touchThrow" creates it and
\* then throws, "select" is a readState selector
RawMutator(state, rq) ==
  IF rq.action = "touch" THEN Returned(_ensureUserRecord(state, rq.user, rq.now), FALSE, 0)
  ELSE IF rq.action = "touchThrow"
       THEN Thrown(_ensureUserRecord(state, rq.user, rq.now), "mutator_failed")
       ELSE Returned(state, FALSE, 0)

\* the function a queued operation runs on the state object
\* getUpload's selector looking in every user's record
GetSelectorAnyUser(state, rq) ==
  Returned(state, \E k \in DOMAIN state.users : HasUpload(state, k, rq.u), 0)

\* getUpload: the readState selector, the decorated upload of this user or null
GetSelector(state, rq) == Returned(state, HasUpload(state, rq.user, rq.u), 0)

Mutate(state, rq) ==
  CASE rq.op = "create"   -> CreateMutator(state, rq)
    [] rq.op = "record"   -> RecordMutator(state, rq)
    [] rq.op = "status"   -> StatusMutator(state, rq)
    [] rq.op = "finalize" -> FinalizeMutator(state, rq)
    [] rq.op = "remove"   -> RemoveMutator(state, rq)
    [] rq.op = "history"  -> HistoryMutator(state, rq)
    [] rq.op = "snapshot" -> SnapshotSelector(state, rq)
    [] rq.op = "exists"   -> ExistsSelector(state, rq)
    [] rq.op = "identify" -> IdentifyMutator(state, rq)
    [] rq.op = "clear"    -> ClearMutator(state, rq)
    [] rq.op = "get"      -> GetSelector(state, rq)
    [] OTHER              -> RawMutator(state, rq)

\* the operations submitted through readState
IsRead(rq) ==
  \/ rq.op = "snapshot" \/ rq.op = "exists" \/ rq.op = "get"
  \/ (rq.op = "raw" /\ rq.action = "select")

(* --------------------------- the requests ------------------------------ *)
IdleReq ==
  [kind |-> "none", pc |-> "idle", op |-> "none", user |-> "none", u |-> "none",
   idx |-> 0, action |-> "none", persist |-> FALSE, fileName |-> "none",
   fileSize |-> 0, chunkSize |-> 0, i |-> 0, total |-> 0, res |-> "none",
   err |-> "none", held |-> <<>>, now |-> 0, key |-> "none"]

\* a handler that has answered: its locals are dropped; what stays is the
\* record of the request (what it asked for, how it ended and what its
\* recordChunk call returned; of a state request, whether it asked to remove
\* the upload and which)
Ended(rq, pc, err) ==
  [IdleReq EXCEPT !.kind = rq.kind, !.pc = pc, !.err = err,
                  !.u = IF rq.kind = "state" /\ rq.res # "remove" THEN "none" ELSE rq.u,
                  !.idx = rq.idx, !.res = rq.res,
                  !.fileSize = rq.fileSize, !.chunkSize = rq.chunkSize,
                  !.persist = rq.persist, !.key = rq.key,
                  !.user = IF rq.kind \in {"identify", "get", "list"}
                           THEN rq.user ELSE "none"]

\* the error codes of the errors the handlers create with a statusCode: 400
\* for the request checks, 404 for the not-found answers of the GET routes
HandlerErrors ==
  {"missing_user_key", "missing_fields", "invalid_sizes", "invalid_action",
   "missing_chunk_file", "invalid_chunk_index", "missing_sample"}
\* err.statusCode; 0 where the error object has none, as have all the errors
\* the manager, the store and fs throw
StatusCodeOf(err) == IF err \in HandlerErrors THEN 400 ELSE 0
\* sanitizeError and the error middleware: the status and the error code sent
sanitizeError(err) ==
  IF StatusCodeOf(err) # 0
  THEN [status |-> StatusCodeOf(err), error |-> err]
  ELSE [status |-> 500, error |-> "internal_error"]
\* the response of a handler that has answered
Response(rq) ==
  IF rq.pc = "done" THEN [status |-> 200, error |-> "none"]
  ELSE IF rq.kind \in {"get", "list"} /\ rq.res = "not_found"
  THEN [status |-> 404, error |-> rq.err]
  ELSE sanitizeError(rq.err)

\* requests arrive one slot after the other
CanArrive(r) ==
  /\ req[r].pc = "idle"
  /\ \A q \in Reqs : q < r => req[q].pc # "idle"

\* req.file.buffer of request r: every request carries bytes of its own
Payload(r) == r
\* no directory; `by` names the request whose bytes a part file holds
NoDir == [dir |-> FALSE, part |-> [i \in ChunkIndexes |-> "absent"],
          by |-> [i \in ChunkIndexes |-> 0]]
\* an output file without content
NoBytes == [i \in ChunkIndexes |-> [idx |-> -1, by |-> 0, st |-> "absent"]]
\* fs.ensureDir(<uploadDir>/<id>)
EnsureDir(d, u) == [d EXCEPT ![u].dir = TRUE]
\* the directory is left in place
RemoveDirKeep(d, u) == d

\* fs.remove(<uploadDir>/<id>)
RemoveDir(d, u) == [d EXCEPT ![u] = NoDir]

\* the number of upload ids createUpload has handed out
NumCreated == Cardinality({q \in Reqs : req[q].kind = "create" /\ req[q].u # "none"})

\* the upload ids clients know: those a create request has answered with
\* (an id is 20 random characters, a client cannot name it before)
Known == {req[q].u : q \in {c \in Reqs : req[c].kind = "create" /\ req[c].pc = "done"}}

AsmPcs == {"asm", "asmpart", "asmend", "asmrm"}

Init ==
  /\ file = EmptyState
  /\ ephemeral = EmptyMap
  /\ disk = [u \in UploadIds |-> NoDir]
  /\ finalFile = [u \in UploadIds |-> "absent"]
  /\ storeQ = <<>>
  /\ lockErr = "none"
  /\ txn = EmptyMap
  /\ req = [r \in Reqs |-> IdleReq]
  /\ finalBytes = [u \in UploadIds |-> NoBytes]
  /\ firstWrite = [u \in UploadIds |-> [i \in ChunkIndexes |-> 0]]
  /\ restarts = 0

(* ------------------------- POST /api/uploads --------------------------- *)
\* every created upload goes to the state document
PersistsAlways(persist) == TRUE

\* createUpload: if (baseMetadata.persist)
PersistsToStore(persist) == persist

\* the handler up to createUpload's withState call (persistent) or its
\* insertion into the ephemeral bucket
\* the route accepts a fileSize of zero or less
ValidSizesChunkOnly(fileSize, chunkSize) == chunkSize > 0

\* POST /api/uploads: size <= 0 || chunk <= 0 is answered with invalid_sizes
ValidSizes(fileSize, chunkSize) == fileSize > 0 /\ chunkSize > 0

StartCreate(r, userKey, fileName, fileSize, chunkSize, persist) ==
  /\ CanArrive(r)
  /\ ValidSizes(fileSize, chunkSize) => NumCreated < MaxUploads
  /\ LET uploadId == IdNames[NumCreated + 1]
         rq == [IdleReq EXCEPT !.kind = "create", !.user = userKey, !.u = uploadId,
                               !.fileName = fileName,
                               !.fileSize = fileSize, !.chunkSize = chunkSize,
                               !.persist = persist, !.now = r]
     IN IF ~ValidSizes(fileSize, chunkSize)
        THEN /\ req' = [req EXCEPT ![r] =
                          Ended([IdleReq EXCEPT !.kind = "create"], "failed",
                                "invalid_sizes")]
             /\ UNCHANGED <<ephemeral, storeQ>>
        ELSE
        IF PersistsToStore(persist)
        THEN /\ req' = [req EXCEPT ![r] = [rq EXCEPT !.pc = "store", !.op = "create"]]
             /\ storeQ' = Append(storeQ, r)
             /\ UNCHANGED ephemeral
        ELSE /\ req' = [req EXCEPT ![r] = [rq EXCEPT !.pc = "mkdir"]]
             /\ ephemeral' =
                  [_ensureEphemeralUser(ephemeral, userKey) EXCEPT
                     ![userKey] = Put(@, uploadId,
                        baseMetadata(uploadId, userKey, fileName, fileSize,
                                     chunkSize, persist))]
             /\ UNCHANGED storeQ
  /\ UNCHANGED <<file, disk, finalFile, lockErr, txn, finalBytes, firstWrite, restarts>>

\* createUpload: fs.ensureDir of the scratch directory, then the response
CreateMkdir(r) ==
  /\ req[r].pc = "mkdir"
  /\ disk' = EnsureDir(disk, req[r].u)
  /\ req' = [req EXCEPT ![r] = Ended(req[r], "done", "none")]
  /\ UNCHANGED <<file, ephemeral, finalFile, storeQ, lockErr, txn, finalBytes, firstWrite, restarts>>

(* ------------------- POST /api/uploads/:uploadId/chunk ----------------- *)
\* the request arrives; ensureChunkDirectory
StartChunk(r, userKey, uploadId, index) ==
  /\ CanArrive(r)
  /\ uploadId \in Known
  /\ req' = [req EXCEPT ![r] = [IdleReq EXCEPT !.kind = "chunk", !.pc = "exists",
                                  !.user = userKey, !.u = uploadId, !.idx = index,
                                  !.now = r]]
  /\ disk' = EnsureDir(disk, uploadId)
  /\ UNCHANGED <<file, ephemeral, finalFile, storeQ, lockErr, txn, finalBytes, firstWrite, restarts>>

\* fs.pathExists(chunkPath)
ChunkExists(r) ==
  /\ req[r].pc = "exists"
  /\ req' = [req EXCEPT ![r].pc =
               IF disk[req[r].u].part[req[r].idx] # "absent" THEN "record" ELSE "write"]
  /\ UNCHANGED <<file, ephemeral, disk, finalFile, storeQ, lockErr, txn, finalBytes, firstWrite,
                 restarts>>

\* fs.writeFile opens the part file (fails when the directory is gone)
ChunkWriteOpen(r) ==
  /\ req[r].pc = "write"
  /\ IF disk[req[r].u].dir
     THEN /\ disk' = [disk EXCEPT ![req[r].u].part[req[r].idx] = "partial",
                                  ![req[r].u].by[req[r].idx] = Payload(r)]
          /\ req' = [req EXCEPT ![r].pc = "writing"]
     ELSE /\ req' = [req EXCEPT ![r] = Ended(req[r], "failed", "internal_error")]
          /\ UNCHANGED disk
  /\ UNCHANGED <<file, ephemeral, finalFile, storeQ, lockErr, txn, finalBytes, firstWrite, restarts>>

\* another request has the same part file open for writing
OtherWriter(r) ==
  \E q \in Reqs \ {r} :
     req[q].pc = "writing" /\ req[q].u = req[r].u /\ req[q].idx = req[r].idx

\* fs.writeFile has written the bytes and closed the file; where another
\* request opened the same file after r did, the file holds the bytes of the
\* one that wrote last
ChunkWriteDone(r) ==
  /\ req[r].pc = "writing"
  /\ LET u == req[r].u
         i == req[r].idx
     IN IF disk[u].part[i] = "absent"
        THEN UNCHANGED <<disk, firstWrite>>
        ELSE /\ \E after \in (IF OtherWriter(r) THEN {"partial", "complete"}
                              ELSE {"complete"}),
                   holds \in {Payload(r), disk[u].by[i]} :
                   disk' = [disk EXCEPT ![u].part[i] = after, ![u].by[i] = holds]
             /\ firstWrite' = IF firstWrite[u][i] = 0
                              THEN [firstWrite EXCEPT ![u][i] = r]
                              ELSE firstWrite
  /\ req' = [req EXCEPT ![r].pc = "record"]
  /\ UNCHANGED <<file, ephemeral, finalFile, storeQ, lockErr, txn, finalBytes, restarts>>

\* where the chunk handler goes with recordChunk's result
AfterRecord(rq, completed, total) ==
  IF completed
  THEN [rq EXCEPT !.pc = "asm", !.op = "none", !.res = "completed", !.total = total]
  ELSE Ended([rq EXCEPT !.res = "ok"], "done", "none")

\* manager.recordChunk: the ephemeral branch runs to its end, the persistent
\* branch submits its mutator to the store
ChunkRecord(r) ==
  /\ req[r].pc = "record"
  /\ LET rq == req[r] IN
     IF InMemory(ephemeral, rq.user, rq.u)
     THEN LET m == _markChunk(ephemeral[rq.user][rq.u], rq.idx) IN
          /\ ephemeral' = IF m.err = "none"
                          THEN [ephemeral EXCEPT ![rq.user][rq.u] = m.upload]
                          ELSE ephemeral
          /\ req' = [req EXCEPT ![r] =
                IF m.err # "none" THEN Ended(rq, "failed", m.err)
                ELSE AfterRecord(rq, Len(_decorateUpload(m.upload).missingChunks) = 0,
                                 m.upload.totalChunks)]
          /\ UNCHANGED storeQ
     ELSE /\ req' = [req EXCEPT ![r].pc = "store", ![r].op = "record"]
          /\ storeQ' = Append(storeQ, r)
          /\ UNCHANGED ephemeral
  /\ UNCHANGED <<file, disk, finalFile, lockErr, txn, finalBytes, firstWrite, restarts>>

\* assembleFile: ensureDir(finalDir) and createWriteStream(finalPath)
AsmOpen(r) ==
  /\ req[r].pc = "asm"
  /\ finalFile' = [finalFile EXCEPT ![req[r].u] = "partial"]
  /\ finalBytes' = [finalBytes EXCEPT ![req[r].u] = NoBytes]
  /\ req' = [req EXCEPT ![r].pc = "asmpart", ![r].i = 0]
  /\ UNCHANGED <<file, ephemeral, disk, storeQ, lockErr, txn, firstWrite, restarts>>

\* assembleFile: the index of the part read in a round of the loop
\* for (let i = 0; i < upload.totalChunks; i += 1)
AsmIndex(round, total) == round

\* assembleFile: one round of the loop, pathExists and the copy of the part
\* to the place in the output the stream has reached
AsmPart(r) ==
  /\ req[r].pc = "asmpart"
  /\ IF disk[req[r].u].part[AsmIndex(req[r].i, req[r].total)] = "absent"
     THEN /\ req' = [req EXCEPT ![r] = Ended(req[r], "failed", "missing_chunk")]
          /\ UNCHANGED finalBytes
     ELSE /\ req' = [req EXCEPT ![r].i = @ + 1,
                                ![r].pc = IF req[r].i + 1 < req[r].total
                                          THEN "asmpart" ELSE "asmend"]
          /\ finalBytes' = [finalBytes EXCEPT ![req[r].u][req[r].i] =
                              LET n == AsmIndex(req[r].i, req[r].total)
                              IN [idx |-> n, by |-> disk[req[r].u].by[n],
                                  st |-> disk[req[r].u].part[n]]]
  /\ UNCHANGED <<file, ephemeral, disk, finalFile, storeQ, lockErr, txn, firstWrite, restarts>>

\* assembleFile: writeStream.end() and its finish event
AsmEnd(r) ==
  /\ req[r].pc = "asmend"
  /\ finalFile' = [finalFile EXCEPT ![req[r].u] = "complete"]
  /\ req' = [req EXCEPT ![r].pc = "asmrm"]
  /\ UNCHANGED <<file, ephemeral, disk, storeQ, lockErr, txn, finalBytes, firstWrite, restarts>>

\* assembleFile: fs.remove of the scratch directory
AsmRemove(r) ==
  /\ req[r].pc = "asmrm"
  /\ disk' = RemoveDir(disk, req[r].u)
  /\ req' = [req EXCEPT ![r].pc = "finalize"]
  /\ UNCHANGED <<file, ephemeral, finalFile, storeQ, lockErr, txn, finalBytes, firstWrite, restarts>>

\* manager.finalizeUpload up to its withState call
ChunkFinalize(r) ==
  /\ req[r].pc = "finalize"
  /\ LET rq == req[r] IN
     IF InMemory(ephemeral, rq.user, rq.u)
     THEN /\ ephemeral' = [ephemeral EXCEPT ![rq.user] = Del(@, rq.u)]
          /\ req' = [req EXCEPT ![r] = [rq EXCEPT !.pc = "store", !.op = "history",
                       !.held = <<[ephemeral[rq.user][rq.u] EXCEPT !.status = "completed"]>>]]
     ELSE /\ req' = [req EXCEPT ![r].pc = "store", ![r].op = "finalize"]
          /\ UNCHANGED ephemeral
  /\ storeQ' = Append(storeQ, r)
  /\ UNCHANGED <<file, disk, finalFile, lockErr, txn, finalBytes, firstWrite, restarts>>

(* ------------------- POST /api/uploads/:uploadId/state ----------------- *)
\* the handler up to the first store operation it submits: updateStatus or
\* removeUpload (the ephemeral branches run to their end), then, where the
\* call has already returned, getUserSnapshot
StartState(r, userKey, uploadId, action) ==
  /\ CanArrive(r)
  /\ uploadId \in Known
  /\ LET rq == [IdleReq EXCEPT !.kind = "state", !.user = userKey, !.u = uploadId,
                               !.action = action, !.now = r,
                               !.res = IF action \in {"cancel", "forget"}
                                       THEN "remove" ELSE "none"]
         mem == InMemory(ephemeral, userKey, uploadId)
     IN
     IF action \in {"pause", "resume"}
     THEN /\ ephemeral' = IF mem
                          THEN [ephemeral EXCEPT ![userKey][uploadId].status = StatusOf(action)]
                          ELSE ephemeral
          /\ req' = [req EXCEPT ![r] =
                       [rq EXCEPT !.pc = "store",
                                  !.op = IF mem THEN "snapshot" ELSE "status"]]
          /\ storeQ' = Append(storeQ, r)
     ELSE IF mem
          THEN /\ ephemeral' = [ephemeral EXCEPT ![userKey] = Del(@, uploadId)]
               /\ IF action = "forget"
                  THEN /\ req' = [req EXCEPT ![r] = [rq EXCEPT !.pc = "rmdir"]]
                       /\ UNCHANGED storeQ
                  ELSE /\ req' = [req EXCEPT ![r] =
                                    [rq EXCEPT !.pc = "store", !.op = "history",
                                               !.held = <<ephemeral[userKey][uploadId]>>]]
                       /\ storeQ' = Append(storeQ, r)
          ELSE /\ req' = [req EXCEPT ![r] = [rq EXCEPT !.pc = "store", !.op = "remove"]]
               /\ storeQ' = Append(storeQ, r)
               /\ UNCHANGED ephemeral
  /\ UNCHANGED <<file, disk, finalFile, lockErr, txn, finalBytes, firstWrite, restarts>>

\* cancel / forget: fs.remove of the scratch directory, then getUserSnapshot
StateRmdir(r) ==
  /\ req[r].pc = "rmdir"
  /\ disk' = RemoveDir(disk, req[r].u)
  /\ req' = [req EXCEPT ![r].pc = "store", ![r].op = "snapshot"]
  /\ storeQ' = Append(storeQ, r)
  /\ UNCHANGED <<file, ephemeral, finalFile, lockErr, txn, finalBytes, firstWrite, restarts>>

(* ---------------------- POST /api/users/identify ----------------------- *)
\* the handler up to identifyUser's first store call: readState when a key
\* was sent, withState otherwise
StartIdentify(r, requestedKey) ==
  /\ CanArrive(r)
  /\ req' = [req EXCEPT ![r] =
               [IdleReq EXCEPT !.kind = "identify", !.pc = "store",
                               !.op = IF requestedKey = "none" THEN "identify"
                                      ELSE "exists",
                               !.user = requestedKey, !.now = r]]
  /\ storeQ' = Append(storeQ, r)
  /\ UNCHANGED <<file, ephemeral, disk, finalFile, lockErr, txn, finalBytes, firstWrite, restarts>>

(* --------------------- DELETE /api/uploads/history --------------------- *)
\* the handler up to clearHistory's withState call
StartClear(r, userKey) ==
  /\ CanArrive(r)
  /\ req' = [req EXCEPT ![r] =
               [IdleReq EXCEPT !.kind = "clear", !.pc = "store", !.op = "clear",
                               !.user = userKey, !.now = r]]
  /\ storeQ' = Append(storeQ, r)
  /\ UNCHANGED <<file, ephemeral, disk, finalFile, lockErr, txn, finalBytes, firstWrite, restarts>>

(* ------------------------------ DataStore ------------------------------ *)
\* a caller of withState / readState other than the manager submits one of
\* RawMutators
\* GET /api/uploads/:uploadId: getUpload answers from the ephemeral map at
\* once, or reads the state document
StartGet(r, userKey, uploadId) ==
  /\ CanArrive(r)
  /\ uploadId \in Known
  /\ LET rq == [IdleReq EXCEPT !.kind = "get", !.user = userKey, !.u = uploadId,
                               !.now = r]
     IN IF InMemory(ephemeral, userKey, uploadId)
        THEN /\ req' = [req EXCEPT ![r] = Ended([rq EXCEPT !.res = "memory"], "done", "none")]
             /\ UNCHANGED storeQ
        ELSE /\ req' = [req EXCEPT ![r] = [rq EXCEPT !.pc = "store", !.op = "get"]]
             /\ storeQ' = Append(storeQ, r)
  /\ UNCHANGED <<file, ephemeral, disk, finalFile, lockErr, txn, finalBytes, firstWrite,
                 restarts>>

\* GET /api/uploads: getUserSnapshot, null is answered with user_not_found
StartList(r, userKey) ==
  /\ CanArrive(r)
  /\ req' = [req EXCEPT ![r] =
               [IdleReq EXCEPT !.kind = "list", !.pc = "store", !.op = "snapshot",
                               !.user = userKey, !.now = r]]
  /\ storeQ' = Append(storeQ, r)
  /\ UNCHANGED <<file, ephemeral, disk, finalFile, lockErr, txn, finalBytes, firstWrite,
                 restarts>>

StartRaw(r, userKey, mutator) ==
  /\ CanArrive(r)
  /\ req' = [req EXCEPT ![r] = [IdleReq EXCEPT !.kind = "raw", !.pc = "store",
                                  !.op = "raw", !.user = userKey, !.action = mutator,
                                  !.now = r]]
  /\ storeQ' = Append(storeQ, r)
  /\ UNCHANGED <<file, ephemeral, disk, finalFile, lockErr, txn, finalBytes, firstWrite, restarts>>

RemoveFromQ(q, r) == SelectSeq(q, LAMBDA x : x # r)
InQ(r) == \E k \in 1..Len(storeQ) : storeQ[k] = r

\* the body of a queued operation may start although an earlier one has not
\* settled
MayRunUnchained(r) == InQ(r) /\ r \notin DOMAIN txn

\* the body of the newest operation starts first
MayRunNewest(r) ==
  Len(storeQ) > 0 /\ r = storeQ[Len(storeQ)] /\ r \notin DOMAIN txn

\* this._lock.then(body): the body of r starts once every operation chained
\* before it has settled
MayRun(r) == Len(storeQ) > 0 /\ r = Head(storeQ) /\ r \notin DOMAIN txn

\* the document on disk is replaced although the mutator threw
FileAfterThrowWritten(old, state) == state

\* withState: a throw of the mutator skips this._write(state)
FileAfterThrow(old, state) == old

\* a state file cut short by a write that did not finish: fs.outputJson opens
\* the file with truncation and writes it in place
Torn == [users |-> EmptyMap, torn |-> TRUE]

\* fs.readJson cannot parse the file
IsTorn(f) == "torn" \in DOMAIN f

\* where a handler goes when the store operation it awaits has returned
AfterStore(rq, out) ==
  CASE rq.op = "create"   -> [rq EXCEPT !.pc = "mkdir", !.op = "none"]
    [] rq.op = "record"   -> AfterRecord(rq, out.completed, out.total)
    [] rq.op = "exists"   -> IF out.completed
                             THEN [rq EXCEPT !.op = "snapshot", !.res = "existing",
                                             !.key = rq.user]
                             ELSE [rq EXCEPT !.op = "identify"]
    [] rq.op = "identify" -> [rq EXCEPT !.op = "snapshot", !.res = "created",
                                        !.key = out.key]
    [] rq.op = "clear"    -> [rq EXCEPT !.op = "snapshot"]
    [] rq.op = "get"      -> IF out.completed
                             THEN Ended([rq EXCEPT !.res = "persistent"], "done", "none")
                             ELSE Ended([rq EXCEPT !.res = "not_found"], "failed",
                                        "upload_not_found")
    [] rq.op = "snapshot" /\ rq.kind = "list" ->
         IF getUserSnapshot(out.state, ephemeral, rq.user).found
         THEN Ended([rq EXCEPT !.res = "found"], "done", "none")
         ELSE Ended([rq EXCEPT !.res = "not_found"], "failed", "user_not_found")
    [] rq.op = "status"   -> [rq EXCEPT !.op = "snapshot"]
    [] rq.op = "finalize" -> [rq EXCEPT !.op = "snapshot"]
    [] rq.op = "history"  -> IF rq.kind = "chunk" THEN [rq EXCEPT !.op = "snapshot"]
                             ELSE [rq EXCEPT !.pc = "rmdir", !.op = "none"]
    [] rq.op = "remove"   -> [rq EXCEPT !.pc = "rmdir", !.op = "none"]
    [] OTHER              -> Ended(rq, "done", "none")

\* identifyUser: this._ensureEphemeralUser of the key it returns
EphemeralAfter(eph, rq, out) ==
  IF rq.op = "exists" /\ out.completed THEN _ensureEphemeralUser(eph, rq.user)
  ELSE IF rq.op = "identify" THEN _ensureEphemeralUser(eph, out.key)
  ELSE eph

\* the queue after r has settled and its handler has run on
QAfter(r, rq) ==
  RemoveFromQ(storeQ, r) \o (IF rq.pc = "store" THEN <<r>> ELSE <<>>)

\* the body of the operation at the head of the chain starts: _read
StoreRead(r) ==
  /\ req[r].pc = "store"
  /\ lockErr = "none"
  /\ MayRun(r)
  /\ IF IsTorn(file)
     THEN /\ lockErr' = "json_syntax_error"
          /\ req' = [req EXCEPT ![r] = Ended(req[r], "failed", "json_syntax_error")]
          /\ storeQ' = RemoveFromQ(storeQ, r)
          /\ UNCHANGED txn
     ELSE /\ txn' = Put(txn, r, file)
          /\ UNCHANGED <<storeQ, lockErr, req>>
  /\ UNCHANGED <<file, ephemeral, disk, finalFile, finalBytes, firstWrite, restarts>>

\* the rest of the body: mutator(state) or selector(state) on the object that
\* was read; a throw rejects the chain, otherwise _write(state) replaces the
\* document (withState only) and the operation resolves
StoreApply(r) ==
  /\ r \in DOMAIN txn
  /\ LET out == Mutate(txn[r], req[r]) IN
     IF out.err # "none"
     THEN /\ file' = FileAfterThrow(file, out.state)
          /\ lockErr' = out.err
          /\ req' = [req EXCEPT ![r] = Ended(req[r], "failed", out.err)]
          /\ storeQ' = RemoveFromQ(storeQ, r)
          /\ UNCHANGED ephemeral
     ELSE /\ file' = IF IsRead(req[r]) THEN file ELSE out.state
          /\ req' = [req EXCEPT ![r] = AfterStore(req[r], out)]
          /\ storeQ' = QAfter(r, AfterStore(req[r], out))
          /\ ephemeral' = EphemeralAfter(ephemeral, req[r], out)
          /\ UNCHANGED lockErr
  /\ txn' = Del(txn, r)
  /\ UNCHANGED <<disk, finalFile, finalBytes, firstWrite, restarts>>

\* the promise r is chained on has rejected: r rejects with the same error
\* and its body never runs
StoreSkip(r) ==
  /\ req[r].pc = "store"
  /\ lockErr # "none"
  /\ MayRun(r)
  /\ req' = [req EXCEPT ![r] = Ended(req[r], "skipped", lockErr)]
  /\ storeQ' = RemoveFromQ(storeQ, r)
  /\ UNCHANGED <<file, ephemeral, disk, finalFile, lockErr, txn, finalBytes, firstWrite, restarts>>

(* --------------------------- specifications ---------------------------- *)
StoreNext ==
  \E r \in Reqs : StoreRead(r) \/ StoreApply(r) \/ StoreSkip(r)

Next ==
  \/ \E r \in Reqs, k \in UserKeys, fn \in FileNames, fs \in FileSizes,
        cs \in ChunkSizes, p \in BOOLEAN :
        StartCreate(r, k, fn, fs, cs, p)
  \/ \E r \in Reqs : CreateMkdir(r)
  \/ \E r \in Reqs, k \in UserKeys, u \in UploadIds, i \in ChunkIndexes :
        StartChunk(r, k, u, i)
  \/ \E r \in Reqs : ChunkExists(r)
  \/ \E r \in Reqs : ChunkWriteOpen(r)
  \/ \E r \in Reqs : ChunkWriteDone(r)
  \/ \E r \in Reqs : ChunkRecord(r)
  \/ \E r \in Reqs : AsmOpen(r)
  \/ \E r \in Reqs : AsmPart(r)
  \/ \E r \in Reqs : AsmEnd(r)
  \/ \E r \in Reqs : AsmRemove(r)
  \/ \E r \in Reqs : ChunkFinalize(r)
  \/ \E r \in Reqs, k \in UserKeys, u \in UploadIds, a \in Actions :
        StartState(r, k, u, a)
  \/ \E r \in Reqs : StateRmdir(r)
  \/ StoreNext

\* the upload service: create, chunk and state requests over the store
Spec == Init /\ [][Next]_vars

\* the documents a stop of the process can leave in the state file: the one on
\* disk, or, when the body of withState is running and its mutator returns,
\* the new one or a cut one (the stop falls inside this._write)
FileAfterStop ==
  LET writers == {r \in DOMAIN txn :
                    ~IsRead(req[r]) /\ Mutate(txn[r], req[r]).err = "none"}
  IN {file} \cup {Mutate(txn[r], req[r]).state : r \in writers}
            \cup (IF writers = {} THEN {} ELSE {Torn})

\* the process stops and is started again: new UploadManager (empty ephemeral
\* map) and new DataStore (resolved _lock); every request in flight is lost
\* with its connection; the state file, the scratch directories and the output
\* files stay as they are on disk. The ids answered by createUpload stay known
\* to the clients, and an id handed out before the stop is not drawn again
Restart ==
  /\ restarts < MaxRestarts
  /\ restarts' = restarts + 1
  /\ file' \in FileAfterStop
  /\ ephemeral' = EmptyMap
  /\ storeQ' = <<>>
  /\ lockErr' = "none"
  /\ txn' = EmptyMap
  /\ req' = [r \in Reqs |->
               IF req[r].kind = "create"
               THEN IF req[r].pc = "done" THEN req[r]
                    ELSE Ended(req[r], "crashed", "none")
               ELSE IdleReq]
  /\ UNCHANGED <<disk, finalFile, finalBytes, firstWrite>>

NextRestart ==
  \/ Restart
  \/ Next

\* the upload service over stops and restarts of its process
SpecRestart == Init /\ [][NextRestart]_vars

\* a step of a request that has arrived: the continuation of a handler after
\* an await, or the body of a store operation
Progress ==
  \E r \in Reqs :
     \/ CreateMkdir(r) \/ ChunkExists(r) \/ ChunkWriteOpen(r) \/ ChunkWriteDone(r)
     \/ ChunkRecord(r) \/ AsmOpen(r) \/ AsmPart(r) \/ AsmEnd(r) \/ AsmRemove(r)
     \/ ChunkFinalize(r) \/ StateRmdir(r)
     \/ StoreRead(r) \/ StoreApply(r) \/ StoreSkip(r)

\* the upload service on an event loop that runs every continuation that is
\* ready: file system calls and promise callbacks of arrived requests complete
SpecLive == Init /\ [][Next]_vars /\ WF_vars(Progress)

\* what a create request can send as fileSize and as chunkSize
AnySizes == (0 - 1)..MaxFileSize

NextCreate ==
  \/ \E r \in Reqs, k \in UserKeys, fn \in FileNames, fs \in AnySizes,
        cs \in AnySizes, p \in BOOLEAN :
        StartCreate(r, k, fn, fs, cs, p)
  \/ \E r \in Reqs : CreateMkdir(r)
  \/ \E r \in Reqs : StoreRead(r)
  \/ \E r \in Reqs : StoreApply(r)

\* create requests alone, with sizes of every sign
SpecCreate == Init /\ [][NextCreate]_vars

\* the keys of users other than the owner of the uploads
OtherKeys == {"k2"}

NextGet ==
  \/ \E r \in Reqs, k \in UserKeys \cup OtherKeys, u \in UploadIds : StartGet(r, k, u)
  \/ \E r \in Reqs, k \in UserKeys \cup OtherKeys : StartList(r, k)
  \/ Next

\* the upload service with its read routes, asked by the owner of the uploads
\* and by another user
SpecGet == Init /\ [][NextGet]_vars

NextCross ==
  \/ \E r \in Reqs, k \in OtherKeys, fn \in FileNames, fs \in FileSizes,
        cs \in ChunkSizes, p \in BOOLEAN :
        StartCreate(r, k, fn, fs, cs, p)
  \/ \E r \in Reqs, k \in OtherKeys, u \in UploadIds, i \in ChunkIndexes :
        StartChunk(r, k, u, i)
  \/ \E r \in Reqs, k \in OtherKeys, u \in UploadIds, a \in Actions :
        StartState(r, k, u, a)
  \/ Next

\* the upload service used by two users, each of whom can name the upload
\* ids of the other
SpecCross == Init /\ [][NextCross]_vars

NextStore ==
  \/ \E r \in Reqs, k \in UserKeys, m \in RawMutators : StartRaw(r, k, m)
  \/ StoreNext

\* the DataStore alone, driven by its direct clients
SpecStore == Init /\ [][NextStore]_vars

NextUsers ==
  \/ \E r \in Reqs, k \in RequestedKeys : StartIdentify(r, k)
  \/ \E r \in Reqs, k \in UserKeys : StartClear(r, k)
  \/ Next

\* the upload service with its user operations: identify and clear-history
\* requests beside create, chunk and state requests
SpecUsers == Init /\ [][NextUsers]_vars

\* a client that creates one upload after the other for user k1 and ends each
\* (all chunks sent, or cancel) before it creates the next; it alternates
\* persistent and ephemeral uploads and numbers them 1, 2, 3, ...
RunOne(persist, action) ==
  LET done == IF HistoryOf(file, "k1") = <<>> THEN 0 ELSE HistoryOf(file, "k1")[1].id
      rq == [IdleReq EXCEPT !.user = "k1", !.u = done + 1, !.fileName = "a.bin",
                            !.fileSize = MaxFileSize, !.chunkSize = MaxFileSize,
                            !.persist = persist, !.action = action, !.now = 1]
      meta == baseMetadata(rq.u, rq.user, rq.fileName, rq.fileSize, rq.chunkSize, persist)
      held == IF action = "cancel" THEN meta ELSE [meta EXCEPT !.status = "completed"]
  IN /\ \A r \in Reqs : req[r].pc = "idle"
     /\ done < MaxCompletions
     /\ persist = (done % 2 = 0)
     /\ file' = IF persist
                THEN IF action = "cancel"
                     THEN RemoveMutator(CreateMutator(file, rq).state, rq).state
                     ELSE FinalizeMutator(CreateMutator(file, rq).state, rq).state
                ELSE HistoryMutator(file, [rq EXCEPT !.held = <<held>>]).state
     /\ UNCHANGED <<ephemeral, disk, finalFile, storeQ, lockErr, txn, req,
                    finalBytes, firstWrite, restarts>>

NextHistory == \E p \in BOOLEAN, a \in {"complete", "cancel"} : RunOne(p, a)

\* the history of one user under a long sequence of finished uploads
SpecHistory == Init /\ [][NextHistory]_vars

(* ------------------------- reading the state --------------------------- *)
\* the persisted record of upload u: in the document, under some user
Persisted(u) == \E k \in DOMAIN file.users : u \in DOMAIN file.users[k].uploads
\* the ephemeral record of upload u: in some user's bucket
Buffered(u) == \E k \in DOMAIN ephemeral : u \in DOMAIN ephemeral[k]
Live(u) == Persisted(u) \/ Buffered(u)
Meta(u) ==
  IF Buffered(u)
  THEN ephemeral[CHOOSE k \in DOMAIN ephemeral : u \in DOMAIN ephemeral[k]][u]
  ELSE file.users[CHOOSE k \in DOMAIN file.users : u \in DOMAIN file.users[k].uploads].uploads[u]

\* the chunk requests for upload u
ChunkReqs(u) == {q \in Reqs : req[q].kind = "chunk" /\ req[q].u = u}
\* those whose recordChunk call has returned (not thrown)
ReturnedReqs(u) == {q \in ChunkReqs(u) : req[q].res # "none"}
\* those whose recordChunk call returned completed = true
CompletedReqs(u) == {q \in ChunkReqs(u) : req[q].res = "completed"}
\* the indices of the recordChunk calls on u that returned
OkIdx(u) == {req[q].idx : q \in ReturnedReqs(u)}
\* totalChunks of upload u, from the request that created it
TotalOf(u) ==
  LET c == CHOOSE q \in Reqs : req[q].kind = "create" /\ req[q].u = u
  IN CeilDiv(req[c].fileSize, req[c].chunkSize)
\* the assembleFile executions in progress for upload u
Assembling(u) == {q \in Reqs : req[q].pc \in AsmPcs /\ req[q].u = u}
\* the ids of the uploads created with persist = false
EphemeralIds ==
  {req[q].u : q \in {c \in Reqs : req[c].kind = "create" /\ ~req[c].persist}}
\* the upload ids of the entries of that history
HistoryIds(state, userKey) ==
  {HistoryOf(state, userKey)[n].id : n \in 1..Len(HistoryOf(state, userKey))}
\* the number of history entries a state document holds for upload u
HistCount(state, u) ==
  Cardinality(UNION {{<<k, n>> : n \in {j \in 1..Len(state.users[k].history) :
                                             state.users[k].history[j].id = u}} :
                     k \in DOMAIN state.users})
InHistory(u) == \E k \in DOMAIN file.users : u \in HistoryIds(file, k)
\* a cancel or forget request for upload u has arrived
Cancelled(u) ==
  \E q \in Reqs : req[q].kind = "state" /\ req[q].res = "remove" /\ req[q].u = u
\* the end states of a request handler
EndPcs == {"idle", "done", "failed", "skipped", "crashed"}
\* a request for upload u has not answered yet
InFlight(u) == \E q \in Reqs : req[q].u = u /\ req[q].pc \notin EndPcs

(* ------------------------------ claims --------------------------------- *)
\* C1: whatever the interleaving of the recordChunk calls on an upload, its
\* receivedChunks set is the union of the indices of the calls that returned
\* successfully: no mark of one call is lost to another call's
\* read-modify-write.
C1_NoLostMark ==
  \A u \in UploadIds : Live(u) => Meta(u).receivedChunks = OkIdx(u)

\* two recordChunk calls on one persistent upload have marked two indices
C1_Witness ==
  \E u \in UploadIds :
     /\ Persisted(u)
     /\ \E a, b \in ReturnedReqs(u) : req[a].idx # req[b].idx
     /\ Cardinality(Meta(u).receivedChunks) >= 2

\* C2: completed = true is returned to at most one recordChunk caller per
\* upload, repeated submissions of a marked index included.
C2_CompletedAtMostOnce ==
  \A u \in UploadIds : Cardinality(CompletedReqs(u)) <= 1

\* no two chunk requests for u carry the same index
OncePerIndex(u) ==
  \A a, b \in ChunkReqs(u) : a # b => req[a].idx # req[b].idx

\* C3: when every index 0..totalChunks-1 of an upload is submitted exactly
\* once, exactly one of the recordChunk calls returns completed = true and
\* the others return completed = false.
C3_ExactlyOneCompletion ==
  \A u \in UploadIds :
     OncePerIndex(u) =>
        /\ Cardinality(CompletedReqs(u)) <= 1
        /\ (/\ ChunkReqs(u) # {}
            /\ ReturnedReqs(u) = ChunkReqs(u)
            /\ OkIdx(u) = 0..(TotalOf(u) - 1))
           => Cardinality(CompletedReqs(u)) = 1

\* a two-chunk upload whose two indices were each submitted once: both calls
\* have returned, one with completed = true and one with completed = false
C3_Witness ==
  \E u \in UploadIds :
     /\ OncePerIndex(u)
     /\ Cardinality(ChunkReqs(u)) = 2
     /\ ReturnedReqs(u) = ChunkReqs(u)
     /\ OkIdx(u) = 0..(TotalOf(u) - 1)
     /\ \E a, b \in ChunkReqs(u) : req[a].res = "completed" /\ req[b].res = "ok"

\* C4: no two assembleFile executions for the same upload id are in progress
\* at the same time.
C4_OneAssembly ==
  \A u \in UploadIds : Cardinality(Assembling(u)) <= 1

\* C5: the bodies of the store operations never overlap (at most one is
\* executing) and they run in submission order (the one executing is the
\* oldest operation that has not settled).
C5_Serialized ==
  /\ Cardinality(DOMAIN txn) <= 1
  /\ \A r \in DOMAIN txn : r = Head(storeQ)

\* a body executes while a later operation waits behind it
C5_Witness ==
  /\ Len(storeQ) >= 2
  /\ Head(storeQ) \in DOMAIN txn
  /\ \E k \in 2..Len(storeQ) : req[storeQ[k]].op = "snapshot"

\* C6: every submitted store operation is executed once its predecessors have
\* settled, whether they succeeded or failed: none is rejected with the error
\* of another operation, its body never run.
C6_FailureNotInherited ==
  \A r \in Reqs : req[r].pc # "skipped"

\* C7: a step in which a withState mutator throws leaves the document on disk
\* as it was, also when the mutator had changed the state object it was given.
C7_NoPartialPersist ==
  [][\A r \in Reqs :
        (req[r].pc = "store" /\ req'[r].pc = "failed") => file' = file]_vars

\* a mutator has thrown after it had added a user record to its state object
C7_Witness ==
  \E r \in Reqs :
     /\ req[r].kind = "raw"
     /\ req[r].pc = "failed"
     /\ file = EmptyState
     /\ _ensureUserRecord(file, "k1", 1) # file

\* C8: for every live persistent upload (status active or paused) and every
\* index in its receivedChunks, the part file exists with its complete bytes.
C8_MarkedPartsOnDisk ==
  \A u \in UploadIds :
     (Persisted(u) /\ Meta(u).status \in {"active", "paused"}) =>
        \A i \in Meta(u).receivedChunks : disk[u].part[i] = "complete"

\* C9: receivedChunks of a live upload never loses an index, and it is the
\* set of the distinct in-range indices the successful recordChunk calls
\* submitted.
C9_MonotoneMarks ==
  [][\A u \in UploadIds :
        (Live(u) /\ Live(u)') =>
           /\ Meta(u).receivedChunks \subseteq Meta(u)'.receivedChunks
           /\ Meta(u)'.receivedChunks =
                 {i \in OkIdx(u)' : 0 <= i /\ i < Meta(u)'.totalChunks}]_vars

\* an index was submitted twice to a live upload and both calls returned
C9_Witness ==
  \E u \in UploadIds :
     /\ Live(u)
     /\ Meta(u).receivedChunks # {}
     /\ \E a, b \in ReturnedReqs(u) : a # b /\ req[a].idx = req[b].idx

\* C10: every marked index lies in [0, totalChunks), and the decorated view
\* has receivedCount + |missingChunks| = totalChunks with receivedCount the
\* number of marked indices.
C10_CountsAndRange ==
  \A u \in UploadIds :
     Live(u) =>
        /\ \A i \in Meta(u).receivedChunks : 0 <= i /\ i < Meta(u).totalChunks
        /\ _decorateUpload(Meta(u)).receivedCount
              + Len(_decorateUpload(Meta(u)).missingChunks) = Meta(u).totalChunks
        /\ _decorateUpload(Meta(u)).receivedCount = Cardinality(Meta(u).receivedChunks)

\* a live upload with some indices marked and some missing
C10_Witness ==
  \E u \in UploadIds :
     /\ Live(u)
     /\ Meta(u).receivedChunks # {}
     /\ _decorateUpload(Meta(u)).missingChunks # <<>>

\* C12: an upload created with persist = false is never in the uploads map
\* of any user of the state document, and the document gains a history entry
\* for it only one at a time, written by the finalizeUpload of a completing
\* chunk request or by the removeUpload of a cancel.
C12_EphemeralNeverPersisted ==
  [][/\ \A u \in EphemeralIds' : ~Persisted(u)'
     /\ \A u \in EphemeralIds :
           HistCount(file', u) # HistCount(file, u) =>
              /\ HistCount(file', u) = HistCount(file, u) + 1
              /\ \E r \in Reqs :
                    /\ req[r].op = "history" /\ req[r].u = u
                    /\ req[r].kind = "chunk" \/ req[r].action = "cancel"]_vars

\* an ephemeral upload has completed: its file is assembled and its history
\* entry is in the document
C12_Witness ==
  \E u \in EphemeralIds :
     InHistory(u) /\ finalFile[u] = "complete" /\ CompletedReqs(u) # {}

\* the places of upload u under userKey: the persistent uploads map, the
\* ephemeral bucket, the history
Places(u, userKey) ==
  (IF HasUpload(file, userKey, u) THEN 1 ELSE 0)
  + (IF InMemory(ephemeral, userKey, u) THEN 1 ELSE 0)
  + (IF u \in HistoryIds(file, userKey) THEN 1 ELSE 0)

\* C13: in every reachable state an upload id is in at most one of the
\* persistent uploads map, the ephemeral bucket and the history of its user.
C13_OnePlace ==
  \A u \in UploadIds : \A k \in UserKeys \cup DOMAIN file.users : Places(u, k) <= 1

\* a persistent upload has been finalized: it is in the history and no
\* longer live
C13_Witness ==
  \E u \in UploadIds \ EphemeralIds :
     InHistory(u) /\ ~Live(u) /\ CompletedReqs(u) # {}

\* C19: removeUpload removes the live metadata of the upload; with forget
\* false it puts exactly one entry, with the upload's id, fileName and
\* fileSize, at the head of the user's history, with forget true it leaves
\* the history as it was; for persistent and for ephemeral uploads.
C19_RemoveUpload ==
  [][\A r \in Reqs :
        (req'[r].kind = "state" /\ req'[r].pc = "rmdir" /\ req[r].pc # "rmdir") =>
           LET k == req'[r].user
               u == req'[r].u
               upload == IF req[r].op = "history" THEN req[r].held[1]
                         ELSE IF req[r].op = "remove" THEN file.users[k].uploads[u]
                         ELSE ephemeral[k][u]
               old == HistoryOf(file, k)
               new == HistoryOf(file', k)
           IN /\ \A j \in DOMAIN file'.users : u \notin DOMAIN file'.users[j].uploads
              /\ \A j \in DOMAIN ephemeral' : u \notin DOMAIN ephemeral'[j]
              /\ IF req'[r].action = "forget"
                 THEN new = old
                 ELSE /\ Len(new) = Len(old) + 1
                      /\ SubSeq(new, 2, Len(new)) = old
                      /\ new[1].id = upload.id
                      /\ new[1].fileName = upload.fileName
                      /\ new[1].fileSize = upload.fileSize]_vars

\* the removeUpload of a cancel has returned: the upload is in the history
C19_Witness ==
  \E r \in Reqs :
     /\ req[r].kind = "state" /\ req[r].pc = "rmdir" /\ req[r].action = "cancel"
     /\ req[r].u \in HistoryIds(file, req[r].user)
     /\ ~Live(req[r].u)

\* C20: once an upload has completed or has been cancelled or forgotten and
\* no request for it is in flight, its scratch directory does not exist.
C20_ScratchGone ==
  \A u \in Known : (~Live(u) /\ ~InFlight(u)) => disk[u] = NoDir

\* the step in which the recordChunk call of chunk request r marks its index
RecordsNow(r) ==
  /\ req[r].kind = "chunk"
  /\ \/ req[r].pc = "record" /\ req'[r].pc # "record" /\ req'[r].pc # "store"
     \/ r \in DOMAIN txn /\ r \notin DOMAIN txn' /\ req[r].op = "record"

\* C11: submitting an index that is already marked succeeds and leaves
\* receivedChunks and receivedCount as they were, and the assembled file
\* holds, for each index, the bytes of the first write of that index that
\* succeeded.
C11_FirstBytesKept ==
  [][/\ \A r \in Reqs :
          (/\ RecordsNow(r)
           /\ Live(req[r].u)
           /\ req[r].idx \in Meta(req[r].u).receivedChunks) =>
             /\ req'[r].res # "none"
             /\ Live(req[r].u)'
             /\ Meta(req[r].u)'.receivedChunks = Meta(req[r].u).receivedChunks
             /\ Meta(req[r].u)'.receivedCount = Meta(req[r].u).receivedCount
     /\ \A u \in UploadIds :
          finalFile'[u] = "complete" =>
             \A i \in 0..(TotalOf(u)' - 1) :
                finalBytes'[u][i].by = Payload(firstWrite'[u][i])]_vars

\* the snapshots being computed: that of every getUserSnapshot call whose
\* readState body has read the document
Snapshots ==
  {getUserSnapshot(txn[r], ephemeral, SnapshotKey(req[r])) :
     r \in {q \in DOMAIN txn : req[q].op = "snapshot"}}

\* the number of places of seq whose upload has id u
Occurrences(seq, u) == Cardinality({n \in 1..Len(seq) : seq[n].id = u})

\* C17: in every result of getUserSnapshot each live upload of the user,
\* persistent or ephemeral, is in exactly one of the lists active and paused,
\* the active list holds only uploads with status active, the paused list
\* only uploads with status paused, and missingChunks of each listed upload
\* is strictly ascending.
C17_SnapshotLists ==
  \A r \in DOMAIN txn :
     req[r].op = "snapshot" =>
        LET k == SnapshotKey(req[r])
            s == getUserSnapshot(txn[r], ephemeral, k)
        IN /\ \A u \in UploadIds :
                (HasUpload(txn[r], k, u) \/ InMemory(ephemeral, k, u)) =>
                   Occurrences(s.active, u) + Occurrences(s.paused, u) = 1
           /\ \A n \in 1..Len(s.active) : s.active[n].status = "active"
           /\ \A n \in 1..Len(s.paused) : s.paused[n].status = "paused"
           /\ \A n \in 1..Len(s.active \o s.paused) :
                LET m == (s.active \o s.paused)[n].missingChunks
                IN \A a, b \in 1..Len(m) : a < b => m[a] < m[b]

\* a snapshot is being computed for a user with a paused upload that still
\* misses chunks
C17_Witness ==
  \E s \in Snapshots :
     /\ s.found
     /\ \E n \in 1..Len(s.paused) :
           s.paused[n].status = "paused" /\ s.paused[n].missingChunks # <<>>

\* C18: a user's history never holds more than 200 entries and is ordered
\* newest first: after N finished uploads it holds exactly the min(N, 200)
\* most recent ones, the newest at the head.
C18_HistoryCapped ==
  \A k \in DOMAIN file.users :
     LET h == file.users[k].history
         done == IF h = <<>> THEN 0 ELSE h[1].id
     IN /\ Len(h) <= HistoryCap
        /\ Len(h) = (IF done < HistoryCap THEN done ELSE HistoryCap)
        /\ \A n \in 1..Len(h) : h[n].id = done - n + 1

\* more than 200 uploads have finished and the history holds 200 entries
C18_Witness ==
  /\ Len(HistoryOf(file, "k1")) = HistoryCap
  /\ HistoryOf(file, "k1")[1].id > HistoryCap
  /\ HistoryOf(file, "k1")[HistoryCap].id > 1

\* the step in which the store operation of request r returns
Returns(r) == r \in DOMAIN txn /\ r \notin DOMAIN txn' /\ req'[r].pc # "failed"

\* C14: identifyUser called with a requestedKey that is not in the state
\* document returns a key other than requestedKey with created = true, and
\* no user record is created under requestedKey.
C14_UnknownKeyNotHonored ==
  [][\A r \in Reqs :
        (/\ Returns(r)
         /\ req[r].op = "identify"
         /\ req[r].user # "none"
         /\ req[r].user \notin DOMAIN file.users) =>
           /\ req'[r].res = "created"
           /\ req'[r].key # req[r].user
           /\ req[r].user \notin DOMAIN file'.users]_vars

\* C15: identifyUser called with a requestedKey that is in the state
\* document returns that key with created = false and leaves every user
\* record, uploads and history included, as it was.
C15_KnownKeyReturned ==
  [][\A r \in Reqs :
        (/\ Returns(r)
         /\ req[r].op = "exists"
         /\ req[r].user \in DOMAIN file.users) =>
           /\ req'[r].res = "existing"
           /\ req'[r].key = req[r].user
           /\ req'[r].op = "snapshot"
           /\ file' = file]_vars

\* an identify request for the key of a user with a live upload was
\* answered with that key
C15_Witness ==
  \E r \in Reqs :
     /\ req[r].kind = "identify" /\ req[r].pc = "done" /\ req[r].res = "existing"
     /\ req[r].key = req[r].user
     /\ req[r].key \in DOMAIN file.users
     /\ file.users[req[r].key].uploads # EmptyMap

\* C16: a user record that is in the state document stays in it with the
\* createdAt it has, whatever identify, create, chunk, state and
\* clear-history requests run, concurrent identify requests for one key
\* included.
C16_UserRecordKept ==
  [][\A k \in DOMAIN file.users :
        /\ k \in DOMAIN file'.users
        /\ file'.users[k].createdAt = file.users[k].createdAt]_vars

\* two identify requests sent the same unknown key at the same time: one
\* was answered with the key, the other with a generated one, and the record
\* has the createdAt the first one gave it
C16_Witness ==
  \E a, b \in Reqs :
     /\ req[a].kind = "identify" /\ req[b].kind = "identify"
     /\ req[a].pc = "done" /\ req[b].pc = "done"
     /\ req[a].user # "none" /\ req[a].user = req[b].user
     /\ req[a].res = "created" /\ req[b].res = "created"
     /\ req[a].key = req[a].user /\ req[b].key # req[b].user
     /\ req[a].key \in DOMAIN file.users
     /\ req[b].key \in DOMAIN file.users
     /\ file.users[req[a].key].createdAt # file.users[req[b].key].createdAt

\* C21: when assembleFile finds a part missing it fails with missing_chunk
\* and no file is left at the final output path.
C21_NoOutputAfterMissingChunk ==
  [][\A r \in Reqs :
        (req[r].pc = "asmpart" /\ req'[r].err = "missing_chunk") =>
           finalFile'[req[r].u] = "absent"]_vars

\* C23: when assembly fails with missing_chunk and the upload was not
\* cancelled, the metadata of the upload is still live with every index
\* marked (so that a re-upload of the missing chunk can complete it).
C23_LiveAfterMissingChunk ==
  [][\A r \in Reqs :
        (/\ req[r].pc = "asmpart" /\ req'[r].err = "missing_chunk"
         /\ ~Cancelled(req[r].u)) =>
           /\ Live(req[r].u)'
           /\ _missingChunks(Meta(req[r].u))' = <<>>]_vars

\* C27: a chunk or state request that names an upload id unknown for the
\* user is answered with status 404 and code upload_not_found, and changes
\* neither the state document nor the ephemeral registry.
C27_UnknownUpload404 ==
  [][\A r \in Reqs :
        (req[r].pc # "failed" /\ req'[r].pc = "failed"
         /\ req'[r].err = "upload_not_found") =>
           /\ Response(req'[r]) = [status |-> 404, error |-> "upload_not_found"]
           /\ file' = file
           /\ ephemeral' = ephemeral]_vars

\* C28: a chunk submission with an index outside [0, totalChunks) is
\* answered with status 400 and code chunk_out_of_range, marks no index,
\* leaves the status as it was and leaves no part file for that index.
C28_OutOfRange400 ==
  [][\A r \in Reqs :
        (req[r].pc # "failed" /\ req'[r].pc = "failed"
         /\ req'[r].err = "chunk_out_of_range") =>
           /\ Response(req'[r]) = [status |-> 400, error |-> "chunk_out_of_range"]
           /\ file' = file
           /\ ephemeral' = ephemeral
           /\ disk'[req[r].u].part[req[r].idx] = "absent"]_vars

\* the output file of u is the concatenation of the parts 0..total-1 as they
\* are on disk
Concatenated(u, total) ==
  \A p \in 0..(total - 1) :
     finalBytes'[u][p] = [idx |-> p, by |-> disk[u].by[p], st |-> "complete"]

\* C22: when all part files 0..totalChunks-1 are present, the file that
\* assembleFile has finished is the concatenation part 0, part 1, ...,
\* part totalChunks-1, whatever order the chunks were uploaded in.
C22_AssembledInOrder ==
  [][\A r \in Reqs :
        (/\ req[r].pc = "asmend" /\ req'[r].pc = "asmrm"
         /\ \A i \in 0..(req[r].total - 1) : disk[req[r].u].part[i] = "complete") =>
           Concatenated(req[r].u, req[r].total)]_vars

\* C30: clearHistory on an existing user sets that user's history to the
\* empty list and leaves the user's live uploads and every other user's record
\* unchanged; on a user with no record in the state document it fails with
\* user_not_found and changes nothing.
C30_ClearHistory ==
  [][\A r \in Reqs :
        (/\ r \in DOMAIN txn /\ req[r].op = "clear"
         /\ r \notin DOMAIN txn' /\ req'[r].kind = "clear") =>
           LET userKey == req[r].user IN
           IF userKey \in DOMAIN file.users
           THEN /\ req'[r].pc # "failed"
                /\ DOMAIN file'.users = DOMAIN file.users
                /\ file'.users[userKey].history = <<>>
                /\ file'.users[userKey].uploads = file.users[userKey].uploads
                /\ \A k \in DOMAIN file.users \ {userKey} :
                      file'.users[k] = file.users[k]
                /\ ephemeral' = ephemeral
           ELSE /\ req'[r].pc = "failed" /\ req'[r].err = "user_not_found"
                /\ file' = file /\ ephemeral' = ephemeral]_vars

\* a clearHistory that ran after an upload of the user had been finalized
C30_Witness ==
  \E r, q \in Reqs :
     /\ req[r].kind = "clear" /\ req[r].pc = "done"
     /\ req[q].kind = "chunk" /\ req[q].pc = "done" /\ req[q].res = "completed"
     /\ "k1" \in DOMAIN file.users
     /\ HistoryOf(file, "k1") = <<>>

\* C26: a process crash at any point during a State Store write leaves the
\* state file holding either the complete prior document or the complete new
\* document, never an empty, truncated or mixed document.
C26_StateFileWhole == ~IsTorn(file)

\* the record of upload u in a state document, as the snapshot shows it
\* (status, receivedChunks, missingChunks); "none" where it has no record
SnapshotOf(state, u) ==
  IF \E k \in DOMAIN state.users : u \in DOMAIN state.users[k].uploads
  THEN LET k == CHOOSE x \in DOMAIN state.users : u \in DOMAIN state.users[x].uploads
           d == _decorateUpload(state.users[k].uploads[u])
       IN <<k, d.status, d.receivedChunks, d.missingChunks>>
  ELSE <<"none">>

\* C24: if the process stops after all chunks of a persistent upload are
\* marked but before finalize has run, then after restart the upload is still
\* live with empty missingChunks and re-submitting any of its chunks drives
\* assembly and finalize to a successful end: the re-submitted chunk, the only
\* request on the upload, does not fail in assembleFile.
C24_ResubmitCompletes ==
  [][\A r \in Reqs :
        (/\ restarts = 1 /\ restarts' = 1
         /\ req[r].kind = "chunk" /\ req[r].pc = "asmpart"
         /\ Persisted(req[r].u) /\ _missingChunks(Meta(req[r].u)) = <<>>
         /\ \A q \in Reqs \ {r} : req[q].kind \in {"none", "create"}) =>
           req'[r].pc # "failed"]_vars

\* C25: after a process restart, every persistent upload that was live before
\* the restart appears in its user's snapshot with the same status,
\* receivedChunks and missingChunks as before (those of the document on disk,
\* or of the document a write in progress was storing), and can be completed
\* by sending the remaining chunks: the part files of its marked indices are
\* on disk; every ephemeral upload is gone from the snapshot.
C25_LiveUploadsSurviveRestart ==
  [][restarts' = restarts + 1 =>
        /\ \A u \in UploadIds :
              Persisted(u) =>
                /\ SnapshotOf(file', u) \in
                     {SnapshotOf(d, u) : d \in FileAfterStop \ {Torn}}
                /\ Persisted(u)' =>
                     \A i \in ChunkIndexes :
                        i \in Meta(u)'.receivedChunks => disk'[u].part[i] = "complete"
        /\ ephemeral' = EmptyMap]_vars

\* every chunk index of the live upload u has been submitted
AllSubmitted(u) ==
  /\ Live(u)
  /\ \A i \in 0..(TotalOf(u) - 1) : \E q \in ChunkReqs(u) : req[q].idx = i

\* some operation has failed
Failed == \E q \in Reqs : req[q].pc \in {"failed", "skipped"}

\* the entry of upload u heads the history of a user
HeadsHistory(u) ==
  \E k \in DOMAIN file.users :
     HistoryOf(file, k) # <<>> /\ HistoryOf(file, k)[1].id = u

\* the output of u exists, its scratch directory is gone, u is in no live set
\* and has exactly one history entry
Finished(u) ==
  /\ finalFile[u] = "complete"
  /\ disk[u] = NoDir
  /\ ~Live(u)
  /\ HistCount(file, u) = 1

\* C29: if every chunk index of a live upload is eventually submitted, no
\* operation fails and the upload is not cancelled, then eventually the final
\* file exists, the scratch directory is gone, the upload is absent from the
\* live sets and exactly one history entry for it heads the user's history;
\* the response with status completed is sent only after all of this has
\* happened (where it is sent and some of it does not hold, an operation fails).
C29_EventuallyCompleted ==
  /\ \A u \in UploadIds :
        AllSubmitted(u) ~> ((Finished(u) /\ HeadsHistory(u)) \/ Failed \/ Cancelled(u))
  /\ \A u \in UploadIds :
        (/\ \E r \in CompletedReqs(u) : req[r].pc = "done"
         /\ ~Finished(u)) ~> (Failed \/ Cancelled(u))

\* the completed response of an upload has been sent, the upload is finished,
\* nothing has failed and nothing was cancelled
C29_Witness ==
  \E u \in UploadIds :
     /\ \E r \in CompletedReqs(u) : req[r].pc = "done"
     /\ Finished(u) /\ HeadsHistory(u)
     /\ ~Failed /\ ~Cancelled(u)

\* C31: updateStatus sets the upload's status to the requested value whatever
\* the current status is and leaves receivedChunks, totalChunks and the other
\* metadata fields unchanged; for an upload in the ephemeral map (in the step
\* in which the request arrives) and for one in the state document (in the
\* step in which the store body runs).
C31_UpdateStatus ==
  [][\A r \in Reqs :
        /\ (/\ req[r].pc = "idle" /\ req'[r].kind = "state"
            /\ req'[r].action \in {"pause", "resume"}
            /\ InMemory(ephemeral, req'[r].user, req'[r].u)) =>
              ephemeral'[req'[r].user][req'[r].u] =
                [ephemeral[req'[r].user][req'[r].u] EXCEPT
                   !.status = StatusOf(req'[r].action)]
        /\ (/\ r \in DOMAIN txn /\ req[r].op = "status" /\ r \notin DOMAIN txn'
            /\ restarts' = restarts
            /\ HasUpload(file, req[r].user, req[r].u)) =>
              /\ req'[r].pc # "failed"
              /\ file'.users[req[r].user].uploads[req[r].u] =
                   [file.users[req[r].user].uploads[req[r].u] EXCEPT
                      !.status = StatusOf(req[r].action)]]_vars

\* a pause has been applied to an upload that has a chunk marked
C31_Witness ==
  \E r \in Reqs :
     /\ req[r].kind = "state" /\ req[r].action = "pause" /\ req[r].op = "snapshot"
     /\ Live(req[r].u)
     /\ Meta(req[r].u).status = "paused"
     /\ Meta(req[r].u).receivedChunks # {}

\* C32: a chunk submitted for a paused upload is accepted and marked, and it
\* sets the upload's status back to active: the recordChunk call of a chunk
\* request with an index in range that finds the upload paused marks the
\* index and moves the upload from the paused list to the active list of the
\* snapshot.
C32_ChunkResumesPaused ==
  [][\A r \in Reqs :
        (/\ RecordsNow(r)
         /\ Live(req[r].u) /\ Meta(req[r].u).status = "paused"
         /\ Meta(req[r].u).userKey = req[r].user
         /\ req[r].idx < Meta(req[r].u).totalChunks) =>
           LET s == getUserSnapshot(file', ephemeral', req[r].user) IN
           /\ req'[r].pc # "failed"
           /\ Live(req[r].u)'
           /\ req[r].idx \in Meta(req[r].u)'.receivedChunks
           /\ Meta(req[r].u)'.status = "active"
           /\ Occurrences(s.active, req[r].u) = 1
           /\ Occurrences(s.paused, req[r].u) = 0]_vars

\* a chunk has been recorded after a pause was applied: the pause request
\* waits for its snapshot, no other state request exists, the upload is active
C32_Witness ==
  \E q, r \in Reqs :
     /\ req[q].kind = "state" /\ req[q].action = "pause" /\ req[q].op = "snapshot"
     /\ \A s \in Reqs : req[s].kind = "state" => s = q
     /\ req[r].kind = "chunk" /\ req[r].u = req[q].u /\ req[r].res # "none"
     /\ r > q
     /\ Live(req[q].u) /\ Meta(req[q].u).status = "active"

\* C33: when assembly fails with missing_chunk_<N>, the response to the chunk
\* request has status 500 and its error field carries the code
\* missing_chunk_<N>.
C33_MissingChunkResponse ==
  [][\A r \in Reqs :
        (req[r].pc = "asmpart" /\ req'[r].pc = "failed" /\ req'[r].err = "missing_chunk") =>
           Response(req'[r]) = [status |-> 500, error |-> "missing_chunk"]]_vars

\* the list 0, 1, ..., n-1
UpTo(n) == [i \in 1..n |-> i - 1]

\* C34: createUpload returns metadata with status active, empty
\* receivedChunks, totalChunks = ceil(fileSize / chunkSize) >= 1 and
\* missingChunks = [0..totalChunks-1]; a create request with fileSize <= 0 or
\* chunkSize <= 0 is rejected with invalid_sizes and creates no metadata and
\* no scratch directory.
C34_CreateUpload ==
  [][\A r \in Reqs :
        /\ (req[r].pc = "mkdir" /\ req'[r].pc = "done") =>
              LET d == _decorateUpload(
                         baseMetadata(req[r].u, req[r].user, req[r].fileName,
                                      req[r].fileSize, req[r].chunkSize, req[r].persist))
              IN /\ d.status = "active"
                 /\ d.receivedChunks = {}
                 /\ d.totalChunks >= 1
                 /\ d.totalChunks * d.chunkSize >= d.fileSize
                 /\ (d.totalChunks - 1) * d.chunkSize < d.fileSize
                 /\ d.missingChunks = UpTo(d.totalChunks)
                 /\ Live(req[r].u)'
        /\ (req[r].pc = "idle" /\ req'[r].kind = "create") =>
              \/ /\ req'[r].pc \in {"store", "mkdir"}
                 /\ req'[r].fileSize > 0 /\ req'[r].chunkSize > 0
              \/ /\ req'[r].pc = "failed"
                 /\ Response(req'[r]) = [status |-> 400, error |-> "invalid_sizes"]
                 /\ file' = file /\ ephemeral' = ephemeral /\ disk' = disk
                 /\ storeQ' = storeQ]_vars

\* a create request has been rejected for its sizes and another, with a
\* file size that is no multiple of the chunk size, has been answered
C34_Witness ==
  \E r, q \in Reqs :
     /\ req[r].kind = "create" /\ req[r].pc = "failed" /\ req[r].err = "invalid_sizes"
     /\ req[q].kind = "create" /\ req[q].pc = "done"
     /\ req[q].fileSize % req[q].chunkSize # 0

\* C35: getUpload returns location memory exactly for live uploads created
\* with persist = false and location persistent exactly for live uploads
\* created with persist = true, and returns not-found for an upload that has
\* been finalized, cancelled or forgotten or that belongs to another user.
C35_GetUpload ==
  [][\A r \in Reqs :
        (/\ req'[r].kind = "get" /\ req'[r].pc \in {"done", "failed"}
         /\ req[r].pc \notin {"done", "failed"}) =>
           LET u == req'[r].u
               own == Live(u) /\ Meta(u).userKey = req'[r].user
           IN req'[r].res = IF own /\ u \in EphemeralIds THEN "memory"
                            ELSE IF own THEN "persistent"
                            ELSE "not_found"]_vars

\* getUpload has answered memory, persistent and not-found
C35_Witness ==
  \E a, b \in Reqs :
     /\ req[a].kind = "get" /\ req[a].res \in {"memory", "persistent"}
     /\ req[b].kind = "get" /\ req[b].res = "not_found" /\ req[b].user = "k2"

\* C40: getUserSnapshot returns not-found exactly when the user has neither a
\* record in the state document nor an ephemeral bucket; for a user that has
\* only an ephemeral bucket it returns the bucket's uploads, each once, with
\* an empty history.
C40_SnapshotFound ==
  [][\A r \in Reqs :
        (/\ r \in DOMAIN txn /\ req[r].op = "snapshot" /\ r \notin DOMAIN txn'
         /\ restarts' = restarts) =>
           LET k == SnapshotKey(req[r])
               s == getUserSnapshot(file, ephemeral, k)
           IN /\ s.found <=> (k \in DOMAIN file.users \/ k \in DOMAIN ephemeral)
              /\ (k \notin DOMAIN file.users /\ k \in DOMAIN ephemeral) =>
                    /\ s.history = <<>>
                    /\ Len(s.active) + Len(s.paused) = Cardinality(DOMAIN ephemeral[k])
                    /\ \A u \in DOMAIN ephemeral[k] :
                          Occurrences(s.active, u) + Occurrences(s.paused, u) = 1
              /\ req[r].kind = "list" =>
                    req'[r].res = IF k \in DOMAIN file.users \/ k \in DOMAIN ephemeral
                                  THEN "found" ELSE "not_found"]_vars

\* a user with only an ephemeral bucket, holding an upload, has got a
\* snapshot, and a user with neither has got not-found
C40_Witness ==
  \E a, b \in Reqs :
     /\ req[a].kind = "list" /\ req[a].res = "found" /\ req[a].user = "k1"
     /\ "k1" \notin DOMAIN file.users
     /\ "k1" \in DOMAIN ephemeral /\ DOMAIN ephemeral["k1"] # {}
     /\ req[b].kind = "list" /\ req[b].res = "not_found"

\* the user key of the request that takes the step
ActingKey(r) == IF req[r].pc = "idle" THEN req'[r].user ELSE req[r].user

\* C36: operations issued with user key V never change user U's record, U's
\* ephemeral bucket or the metadata of any upload owned by U (U different
\* from V), even when V names the id of one of U's uploads.
C36_OtherUserUnchanged ==
  [][\A r \in Reqs :
        req'[r] # req[r] =>
           \A U \in (UserKeys \cup OtherKeys) \ {ActingKey(r)} :
              /\ (U \in DOMAIN file'.users) <=> (U \in DOMAIN file.users)
              /\ U \in DOMAIN file.users => file'.users[U] = file.users[U]
              /\ (U \in DOMAIN ephemeral') <=> (U \in DOMAIN ephemeral)
              /\ U \in DOMAIN ephemeral => ephemeral'[U] = ephemeral[U]]_vars

\* a chunk request of a user for a live upload of another user has failed,
\* and the upload has no index marked
C36_Witness ==
  \E r \in Reqs :
     /\ req[r].kind = "chunk" /\ req[r].pc = "failed" /\ req[r].err = "upload_not_found"
     /\ Live(req[r].u)
     /\ Meta(req[r].u).receivedChunks = {}

\* C37: a chunk or state request whose userKey does not own the named upload
\* cannot change the upload's scratch directory: it neither creates or
\* pre-empts a part file nor removes the directory.
C37_ScratchOfOthersUntouched ==
  [][\A r \in Reqs :
        (/\ req'[r] # req[r]
         /\ (IF req[r].pc = "idle" THEN req'[r].kind ELSE req[r].kind) \in {"chunk", "state"}) =>
           \A u \in UploadIds :
              (Live(u) /\ Meta(u).userKey # ActingKey(r)) => disk'[u] = disk[u]]_vars

\* C38: under any interleaving of finalizeUpload and removeUpload calls for
\* the same upload, the user's history gains at most one entry for that
\* upload id; every call that runs after the metadata was removed fails with
\* upload_not_found and writes nothing.
C38_OneEntryPerUpload ==
  [][/\ \A u \in UploadIds : HistCount(file', u) <= 1
     /\ \A r \in Reqs :
          (/\ r \in DOMAIN txn /\ r \notin DOMAIN txn' /\ restarts' = restarts
           /\ req[r].op \in {"finalize", "remove"}
           /\ ~Live(req[r].u)) =>
             /\ req'[r].pc = "failed" /\ req'[r].err = "upload_not_found"
             /\ file' = file /\ ephemeral' = ephemeral]_vars

\* a second finalizeUpload call for an upload has failed with
\* upload_not_found, and the history holds one entry for the upload
C38_Witness ==
  \E r \in Reqs :
     /\ req[r].kind = "chunk" /\ req[r].res = "completed"
     /\ req[r].pc = "failed" /\ req[r].err = "upload_not_found"
     /\ HistCount(file, req[r].u) = 1

\* C39: finalizing or cancelling (without forget) an ephemeral upload is
\* all-or-nothing: if the State Store write of the history entry fails, the
\* upload is still in the ephemeral bucket; there is no outcome in which the
\* upload is in neither the bucket nor the history.
C39_HistoryWriteAllOrNothing ==
  [][\A r \in Reqs :
        (/\ req[r].pc = "store" /\ req[r].op = "history"
         /\ req'[r].pc \in {"failed", "skipped"}) =>
           (Buffered(req[r].u)' \/ InHistory(req[r].u)')]_vars

====
